---- MODULE Spec2Model ----
(***************************************************************************)
(* PromptManager of fastmcp/prompts/prompt_manager.py as a state machine.  *)
(*                                                                         *)
(* Python's Optional values are sequences of length at most one: <<>> is   *)
(* None and <<v>> is the value v.  A dict is a function whose DOMAIN is    *)
(* the set of its keys.                                                    *)
(***************************************************************************)
EXTENDS Integers, Sequences, FiniteSets, Bags, TLC

VARIABLES
    alive,               \* TRUE once PromptManager.__init__ has returned
    prompts,             \* self._prompts: dict[str, Prompt]
    duplicate_behavior,  \* self.duplicate_behavior
    tasks,               \* bag of the render_prompt coroutines suspended in prompt.render
    constructed_with,    \* the duplicate_behavior argument __init__ was given
    last                 \* what the most recent call was given and what it gave back

vars == <<alive, prompts, duplicate_behavior, tasks, constructed_with, last>>

----------------------------------------------------------------------------
(* Bounds of the model *)

\* number of distinct Prompt objects that carry the same name
NumBodies == 2
\* number of render_prompt coroutines that can be in flight at once
MaxTasks == 2

----------------------------------------------------------------------------
(* Values *)

None == <<>>
Some(v) == <<v>>

\* Prompt.name values
Names == {"a"}

\* Prompt objects: the registry looks at nothing but their name and identity
Prompts == [name : Names, body : 1..NumBodies]

\* the key argument of add_prompt: omitted, empty, or a string that is no
\* prompt's name
Overrides == {None, Some(""), Some("k")}

\* the name argument of render_prompt
RenderNames == {"a", "k", "ghost"}

\* the key argument of get_prompt and has_prompt
LookupKeys == {"a", "k", "ghost"}

\* the arguments and context arguments of render_prompt
Arguments == {None, Some("args")}
Contexts == {None, Some("ctx")}

\* the duplicate_behavior argument of __init__
PolicyInputs == {None, Some("warn"), Some("error"), Some("replace"),
                 Some("ignore"), Some(""), Some("bogus")}

\* DuplicateBehavior.__args__ (fastmcp.settings)
DuplicateBehaviorArgs == <<"warn", "error", "replace", "ignore">>

\* what a Prompt's render procedure can do when it is resumed
Outcomes == [kind : {"return"}, messages : {<<>>, <<"m1">>, <<"m2", "m1">>}, error : {None}]
       \cup [kind : {"raise"}, messages : {<<>>},
             error : {Some([type |-> "RuntimeError", text |-> "render failed", arg |-> ""]),
                      Some([type |-> "NotFoundError", text |-> "inner", arg |-> "x"])}]

EmptyDict == [k \in {} |-> 0]

UnsetPolicy == "<unset>"

----------------------------------------------------------------------------
(* Python helpers *)

\* dict.get(key)
DictGet(d, key) == IF key \in DOMAIN d THEN Some(d[key]) ELSE None

\* d[key] = value
DictSet(d, key, value) ==
    [k \in (DOMAIN d) \cup {key} |-> IF k = key THEN value ELSE d[k]]

\* truth value of a str | None
StrTruthy(s) == s # None /\ s[1] # ""

\* truth value of a Prompt | None: a Prompt object is always true
PromptTruthy(p) == p # None

Range(s) == {s[i] : i \in DOMAIN s}

----------------------------------------------------------------------------
\* an __init__ without the membership test of line 32
init_unchecked(duplicate_behavior_arg) ==
    [ok |-> TRUE, prompts |-> EmptyDict,
     duplicate_behavior |-> IF duplicate_behavior_arg = None THEN "warn"
                            ELSE duplicate_behavior_arg[1],
     err |-> None]

\* an __init__ whose default is "ignore"
init_default_ignore(duplicate_behavior_arg) ==
    LET db == IF duplicate_behavior_arg = None THEN Some("ignore")
              ELSE duplicate_behavior_arg
    IN  IF db[1] \notin Range(DuplicateBehaviorArgs)
        THEN [ok |-> FALSE, prompts |-> EmptyDict, duplicate_behavior |-> UnsetPolicy,
              err |-> Some([type |-> "ValueError", text |-> "Invalid duplicate_behavior",
                            arg |-> db[1]])]
        ELSE [ok |-> TRUE, prompts |-> EmptyDict, duplicate_behavior |-> db[1],
              err |-> None]

\* an __init__ that validates the argument and then stores the default
init_stores_default(duplicate_behavior_arg) ==
    LET db == IF duplicate_behavior_arg = None THEN Some("warn")
              ELSE duplicate_behavior_arg
    IN  IF db[1] \notin Range(DuplicateBehaviorArgs)
        THEN [ok |-> FALSE, prompts |-> EmptyDict, duplicate_behavior |-> UnsetPolicy,
              err |-> Some([type |-> "ValueError", text |-> "Invalid duplicate_behavior",
                            arg |-> db[1]])]
        ELSE [ok |-> TRUE, prompts |-> EmptyDict, duplicate_behavior |-> "warn",
              err |-> None]

(* PromptManager.__init__ *)

init(duplicate_behavior_arg) ==
    LET db == IF duplicate_behavior_arg = None THEN Some("warn")
              ELSE duplicate_behavior_arg
    IN  IF db[1] \notin Range(DuplicateBehaviorArgs)
        THEN [ok |-> FALSE, prompts |-> EmptyDict, duplicate_behavior |-> UnsetPolicy,
              err |-> Some([type |-> "ValueError", text |-> "Invalid duplicate_behavior",
                            arg |-> db[1]])]
        ELSE [ok |-> TRUE, prompts |-> EmptyDict, duplicate_behavior |-> db[1],
              err |-> None]

(* PromptManager.get_prompt *)
get_prompt(d, key) == DictGet(d, key)

\* a get_prompt that indexes the dict: self._prompts[key]
get_prompt_call_indexes(d, key) ==
    [prompts |-> d,
     ret |-> get_prompt(d, key),
     err |-> IF key \in DOMAIN d THEN None
             ELSE Some([type |-> "KeyError", text |-> "", arg |-> key])]

(* a call of PromptManager.get_prompt: what it leaves in self._prompts, what
   it returns, what it raises *)
get_prompt_call(d, key) ==
    [prompts |-> d, ret |-> get_prompt(d, key), err |-> None]

\* a has_prompt that looks for a prompt of that name among the values
has_prompt_by_name(d, key) == \E k \in DOMAIN d : d[k].name = key

(* PromptManager.has_prompt *)
has_prompt(d, key) == key \in DOMAIN d

(* PromptManager.get_prompts: the caller is given self._prompts itself, not
   a copy.  A reference is the object it designates; a copy would carry its
   own content. *)
get_prompts(d) == [target |-> "self._prompts", content |-> EmptyDict]

\* the dict a reference returned by get_prompts designates, d being self._prompts
Deref(ref, d) == IF ref.target = "self._prompts" THEN d ELSE ref.content

(* PromptManager.add_prompt.  Every branch gives what the call leaves in
   self._prompts, what it returns (ret) or raises (err) and what it logs. *)

\* the locals of add_prompt before the branch
AddBase(d, prompt, key, existing) ==
    [key |-> key, existing |-> existing, prompts |-> d,
     ret |-> Some(prompt), err |-> None, warned |-> <<>>]

\* a warn branch that logs and keeps the old prompt
add_prompt_warn_keeps(d, prompt, key, existing) ==
    [AddBase(d, prompt, key, existing) EXCEPT
        !.warned = <<[text |-> "Prompt already exists", arg |-> key]>>]

\* duplicate_behavior == "warn"
add_prompt_warn(d, prompt, key, existing) ==
    [AddBase(d, prompt, key, existing) EXCEPT
        !.warned = <<[text |-> "Prompt already exists", arg |-> key]>>,
        !.prompts = DictSet(d, key, prompt)]

\* a replace branch that logs like the warn branch
add_prompt_replace_logs(d, prompt, key, existing) ==
    [AddBase(d, prompt, key, existing) EXCEPT
        !.warned = <<[text |-> "Prompt already exists", arg |-> key]>>,
        !.prompts = DictSet(d, key, prompt)]

\* duplicate_behavior == "replace"
add_prompt_replace(d, prompt, key, existing) ==
    [AddBase(d, prompt, key, existing) EXCEPT !.prompts = DictSet(d, key, prompt)]

\* an error branch that stores the prompt before it raises
add_prompt_error_stores(d, prompt, key, existing) ==
    [AddBase(d, prompt, key, existing) EXCEPT
        !.prompts = DictSet(d, key, prompt),
        !.ret = None,
        !.err = Some([type |-> "ValueError", text |-> "Prompt already exists",
                      arg |-> key])]

\* duplicate_behavior == "error"
add_prompt_error(d, prompt, key, existing) ==
    [AddBase(d, prompt, key, existing) EXCEPT
        !.ret = None,
        !.err = Some([type |-> "ValueError", text |-> "Prompt already exists",
                      arg |-> key])]

\* an ignore branch that falls through to "return prompt"
add_prompt_ignore_returns_new(d, prompt, key, existing) ==
    AddBase(d, prompt, key, existing)

\* an ignore branch after existing = self._prompts.pop(key, None)
add_prompt_ignore_pops(d, prompt, key, existing) ==
    [AddBase(d, prompt, key, existing) EXCEPT
        !.prompts = [k \in (DOMAIN d) \ {key} |-> d[k]],
        !.ret = existing]

\* an ignore branch that stores the new prompt and returns the old one
add_prompt_ignore_stores(d, prompt, key, existing) ==
    [AddBase(d, prompt, key, existing) EXCEPT
        !.prompts = DictSet(d, key, prompt),
        !.ret = existing]

\* duplicate_behavior == "ignore"
add_prompt_ignore(d, prompt, key, existing) ==
    [AddBase(d, prompt, key, existing) EXCEPT !.ret = existing]

\* an else branch that rebuilds the dict around the new prompt
add_prompt_new_drops_others(d, prompt, key, existing) ==
    [AddBase(d, prompt, key, existing) EXCEPT !.prompts = DictSet(EmptyDict, key, prompt)]

\* the else branch: no prompt under the key
add_prompt_new(d, prompt, key, existing) ==
    [AddBase(d, prompt, key, existing) EXCEPT !.prompts = DictSet(d, key, prompt)]

\* key = key or prompt.name
add_prompt_key(prompt, override) ==
    IF StrTruthy(override) THEN override[1] ELSE prompt.name

add_prompt(d, db, prompt, override) ==
    LET key == add_prompt_key(prompt, override)
        existing == DictGet(d, key)
    IN  IF PromptTruthy(existing)
        THEN CASE db = "warn" -> add_prompt_warn(d, prompt, key, existing)
               [] db = "replace" -> add_prompt_replace(d, prompt, key, existing)
               [] db = "error" -> add_prompt_error(d, prompt, key, existing)
               [] db = "ignore" -> add_prompt_ignore(d, prompt, key, existing)
               [] OTHER -> AddBase(d, prompt, key, existing)
        ELSE add_prompt_new(d, prompt, key, existing)

\* an add_prompt_from_fn that calls add_prompt and returns the prompt it built
add_prompt_from_fn_returns_built(d, db, built) ==
    [add_prompt(d, db, built, None) EXCEPT
        !.ret = IF @ = None THEN None ELSE Some(built)]

(* PromptManager.add_prompt_from_fn, from the prompt Prompt.from_function
   built on: add_prompt without a key *)
add_prompt_from_fn(d, db, built) == add_prompt(d, db, built, None)

----------------------------------------------------------------------------
\* a render_prompt without the test of line 87: None.render raises
\* AttributeError
render_prompt_call_no_test(d, name, arguments, context) ==
    LET prompt == get_prompt(d, name)
    IN  IF ~PromptTruthy(prompt)
        THEN [prompts |-> d, calls |-> <<>>, task |-> None,
              err |-> Some([type |-> "AttributeError", text |-> "render",
                            arg |-> "NoneType"])]
        ELSE [prompts |-> d,
              calls |-> <<[prompt |-> prompt[1], arguments |-> arguments,
                           context |-> context]>>,
              task |-> Some([name |-> name, prompt |-> prompt[1], ncalls |-> 1]),
              err |-> None]

\* a render_prompt that calls prompt.render(arguments) and drops the context
render_prompt_call_no_context(d, name, arguments, context) ==
    LET prompt == get_prompt(d, name)
    IN  IF ~PromptTruthy(prompt)
        THEN [prompts |-> d, calls |-> <<>>, task |-> None,
              err |-> Some([type |-> "NotFoundError", text |-> "Unknown prompt",
                            arg |-> name])]
        ELSE [prompts |-> d,
              calls |-> <<[prompt |-> prompt[1], arguments |-> arguments,
                           context |-> None]>>,
              task |-> Some([name |-> name, prompt |-> prompt[1], ncalls |-> 1]),
              err |-> None]

(* PromptManager.render_prompt up to its await: the lookup, then either the
   raise or the one call of prompt.render, on which the coroutine suspends *)
render_prompt_call(d, name, arguments, context) ==
    LET prompt == get_prompt(d, name)
    IN  IF ~PromptTruthy(prompt)
        THEN [prompts |-> d, calls |-> <<>>, task |-> None,
              err |-> Some([type |-> "NotFoundError", text |-> "Unknown prompt",
                            arg |-> name])]
        ELSE [prompts |-> d,
              calls |-> <<[prompt |-> prompt[1], arguments |-> arguments,
                           context |-> context]>>,
              task |-> Some([name |-> name, prompt |-> prompt[1], ncalls |-> 1]),
              err |-> None]

\* a render_prompt that catches what prompt.render raises and raises
\* NotFoundError in its place
render_prompt_resume_wraps(d, task, outcome) ==
    [prompts |-> d, calls |-> <<>>, ncalls |-> task.ncalls,
     messages |-> IF outcome.kind = "return" THEN Some(outcome.messages) ELSE None,
     err |-> IF outcome.kind = "raise"
             THEN Some([type |-> "NotFoundError", text |-> "Unknown prompt",
                        arg |-> task.name])
             ELSE None]

\* a render_prompt that unregisters a prompt whose render procedure raised
render_prompt_resume_cleans(d, task, outcome) ==
    [prompts |-> IF outcome.kind = "raise"
                 THEN [k \in (DOMAIN d) \ {task.name} |-> d[k]] ELSE d,
     calls |-> <<>>, ncalls |-> task.ncalls,
     messages |-> IF outcome.kind = "return" THEN Some(outcome.messages) ELSE None,
     err |-> outcome.error]

\* a render_prompt that looks the name up again when it is resumed and
\* calls the prompt it finds there if that is another one
render_prompt_resume_relooks(d, task, outcome) ==
    [prompts |-> d,
     calls |-> IF task.name \in DOMAIN d /\ d[task.name] # task.prompt
               THEN <<[prompt |-> d[task.name], arguments |-> None, context |-> None]>>
               ELSE <<>>,
     ncalls |-> task.ncalls,
     messages |-> IF outcome.kind = "return" THEN Some(outcome.messages) ELSE None,
     err |-> outcome.error]

(* PromptManager.render_prompt from its await on: what prompt.render gave is
   what the coroutine gives *)
render_prompt_resume(d, task, outcome) ==
    [prompts |-> d, calls |-> <<>>, ncalls |-> task.ncalls,
     messages |-> IF outcome.kind = "return" THEN Some(outcome.messages) ELSE None,
     err |-> outcome.error]

\* asyncio throws CancelledError into a coroutine cancelled at its await
Cancelled == [kind |-> "raise", messages |-> <<>>,
              error |-> Some([type |-> "CancelledError", text |-> "", arg |-> ""])]

----------------------------------------------------------------------------
(* The record of the most recent call *)

NoCall ==
    [op |-> "none", policy_arg |-> None, prompt |-> None, override |-> None,
     key |-> "", existing |-> None, before |-> EmptyDict, ret |-> None,
     err |-> None, warned |-> <<>>, arguments |-> None, context |-> None,
     calls |-> <<>>, ncalls |-> 0, produced |-> None, messages |-> None,
     task |-> None, found |-> None, view |-> None]

Init ==
    /\ alive = FALSE
    /\ prompts = EmptyDict
    /\ duplicate_behavior = UnsetPolicy
    /\ tasks = EmptyBag
    /\ constructed_with = None
    /\ last = NoCall

(* PromptManager(duplicate_behavior) *)
Construct ==
    /\ ~alive
    /\ \E arg \in PolicyInputs :
          LET r == init(arg)
          IN  /\ alive' = r.ok
              /\ prompts' = r.prompts
              /\ duplicate_behavior' = r.duplicate_behavior
              /\ constructed_with' = IF r.ok THEN arg ELSE constructed_with
              /\ last' = [NoCall EXCEPT !.op = "__init__", !.policy_arg = arg,
                                        !.err = r.err]
    /\ UNCHANGED tasks

(* manager.add_prompt(prompt, key) *)
AddPrompt ==
    /\ alive
    /\ \E prompt \in Prompts, override \in Overrides :
          LET r == add_prompt(prompts, duplicate_behavior, prompt, override)
          IN  /\ prompts' = r.prompts
              /\ last' = [NoCall EXCEPT !.op = "add_prompt", !.prompt = Some(prompt),
                                        !.override = override, !.key = r.key,
                                        !.existing = r.existing, !.before = prompts,
                                        !.ret = r.ret, !.err = r.err,
                                        !.warned = r.warned]
    /\ UNCHANGED <<alive, duplicate_behavior, tasks, constructed_with>>

(* await manager.render_prompt(name, arguments, context), up to its await *)
RenderStart ==
    /\ alive
    /\ BagCardinality(tasks) < MaxTasks
    /\ \E name \in RenderNames, arguments \in Arguments, context \in Contexts :
          LET r == render_prompt_call(prompts, name, arguments, context)
          IN  /\ prompts' = r.prompts
              /\ tasks' = IF r.task = None THEN tasks
                          ELSE tasks (+) SetToBag({r.task[1]})
              /\ last' = [NoCall EXCEPT !.op = "render_prompt_call", !.key = name,
                                        !.arguments = arguments, !.context = context,
                                        !.before = prompts, !.calls = r.calls,
                                        !.ncalls = Len(r.calls),
                                        !.task = r.task, !.err = r.err]
    /\ UNCHANGED <<alive, duplicate_behavior, constructed_with>>

(* prompt.render returns or raises, and the suspended render_prompt goes on *)
RenderResume ==
    /\ \E task \in BagToSet(tasks), outcome \in Outcomes :
          LET r == render_prompt_resume(prompts, task, outcome)
          IN  /\ prompts' = r.prompts
              /\ tasks' = tasks (-) SetToBag({task})
              /\ last' = [NoCall EXCEPT !.op = "render_prompt_resume",
                                        !.key = task.name, !.before = prompts,
                                        !.task = Some(task), !.calls = r.calls,
                                        !.ncalls = r.ncalls + Len(r.calls),
                                        !.produced = Some(outcome),
                                        !.messages = r.messages, !.err = r.err]
    /\ UNCHANGED <<alive, duplicate_behavior, constructed_with>>

(* the caller cancels a render_prompt suspended in prompt.render *)
RenderCancel ==
    /\ \E task \in BagToSet(tasks) :
          LET r == render_prompt_resume(prompts, task, Cancelled)
          IN  /\ prompts' = r.prompts
              /\ tasks' = tasks (-) SetToBag({task})
              /\ last' = [NoCall EXCEPT !.op = "render_prompt_cancel",
                                        !.key = task.name, !.before = prompts,
                                        !.task = Some(task), !.calls = r.calls,
                                        !.ncalls = r.ncalls + Len(r.calls),
                                        !.produced = Some(Cancelled),
                                        !.messages = r.messages, !.err = r.err]
    /\ UNCHANGED <<alive, duplicate_behavior, constructed_with>>

(* manager.add_prompt_from_fn(fn, name, description, tags): the prompt that
   Prompt.from_function builds is any prompt *)
AddPromptFromFn ==
    /\ alive
    /\ \E built \in Prompts :
          LET r == add_prompt_from_fn(prompts, duplicate_behavior, built)
          IN  /\ prompts' = r.prompts
              /\ last' = [NoCall EXCEPT !.op = "add_prompt_from_fn",
                                        !.prompt = Some(built), !.key = r.key,
                                        !.existing = r.existing, !.before = prompts,
                                        !.ret = r.ret, !.err = r.err,
                                        !.warned = r.warned]
    /\ UNCHANGED <<alive, duplicate_behavior, tasks, constructed_with>>

(* manager.get_prompt(key) *)
Lookup ==
    /\ alive
    /\ \E key \in LookupKeys :
          LET r == get_prompt_call(prompts, key)
          IN  /\ prompts' = r.prompts
              /\ last' = [NoCall EXCEPT !.op = "get_prompt", !.key = key,
                                        !.before = prompts, !.ret = r.ret,
                                        !.err = r.err]
    /\ UNCHANGED <<alive, duplicate_behavior, tasks, constructed_with>>

(* manager.has_prompt(key) *)
Contains ==
    /\ alive
    /\ \E key \in LookupKeys :
          last' = [NoCall EXCEPT !.op = "has_prompt", !.key = key,
                                 !.before = prompts,
                                 !.found = Some(has_prompt(prompts, key))]
    /\ UNCHANGED <<alive, prompts, duplicate_behavior, tasks, constructed_with>>

(* manager.get_prompts() *)
ListAll ==
    /\ alive
    /\ last' = [NoCall EXCEPT !.op = "get_prompts", !.before = prompts,
                              !.view = Some(get_prompts(prompts))]
    /\ UNCHANGED <<alive, prompts, duplicate_behavior, tasks, constructed_with>>

(* The caller's code on the dict get_prompts returned:
   manager.get_prompts()[key] = prompt.  A write through a reference to
   self._prompts is a write to self._prompts; a write to a copy is not. *)
ViewSetItem ==
    /\ alive
    /\ \E key \in LookupKeys, prompt \in Prompts :
          LET ref == get_prompts(prompts)
              written == DictSet(Deref(ref, prompts), key, prompt)
          IN  /\ prompts' = IF ref.target = "self._prompts" THEN written ELSE prompts
              /\ last' = [NoCall EXCEPT !.op = "view_setitem", !.key = key,
                                        !.prompt = Some(prompt), !.before = prompts,
                                        !.view = Some(ref)]
    /\ UNCHANGED <<alive, duplicate_behavior, tasks, constructed_with>>

(* del manager.get_prompts()[key] *)
ViewDelItem ==
    /\ alive
    /\ \E key \in DOMAIN prompts :
          LET ref == get_prompts(prompts)
              content == Deref(ref, prompts)
              written == [k \in (DOMAIN content) \ {key} |-> content[k]]
          IN  /\ prompts' = IF ref.target = "self._prompts" THEN written ELSE prompts
              /\ last' = [NoCall EXCEPT !.op = "view_delitem", !.key = key,
                                        !.before = prompts, !.view = Some(ref)]
    /\ UNCHANGED <<alive, duplicate_behavior, tasks, constructed_with>>

(* The operations of the registry *)
Next ==
    \/ Construct
    \/ AddPrompt
    \/ AddPromptFromFn
    \/ Lookup
    \/ Contains
    \/ ListAll
    \/ RenderStart
    \/ RenderResume
    \/ RenderCancel

Spec == Init /\ [][Next]_vars

(* The operations of the registry, and a caller that writes to the dict
   get_prompts gave it *)
NextView ==
    \/ Construct
    \/ AddPrompt
    \/ Lookup
    \/ ListAll
    \/ RenderStart
    \/ RenderResume
    \/ ViewSetItem
    \/ ViewDelItem

SpecView == Init /\ [][NextView]_vars

----------------------------------------------------------------------------
(* Register(definition, key): the claims read the binding key off the call's
   arguments: the override key when one is supplied and not empty, else the
   definition's name. *)

IsRegister == last.op = "add_prompt"

RegisterKey ==
    IF last.override \notin {None, Some("")} THEN last.override[1]
    ELSE last.prompt[1].name

Collided == IsRegister /\ RegisterKey \in DOMAIN last.before

ConflictError(key) ==
    Some([type |-> "ValueError", text |-> "Prompt already exists", arg |-> key])

Warning(key) == [text |-> "Prompt already exists", arg |-> key]

\* d and e bind the same keys to the same prompts, except perhaps key
SameExcept(d, e, key) ==
    /\ (DOMAIN d) \ {key} = (DOMAIN e) \ {key}
    /\ \A k \in (DOMAIN d) \ {key} : d[k] = e[k]

(* C1: under the error policy a Register on a bound key raises the conflict
   error naming that key, returns nothing, and leaves every binding as it
   was: no key added, every key with its previous definition, the original
   definition still what Lookup returns. *)
C1_ErrorKeepsMapping ==
    (Collided /\ duplicate_behavior = "error") =>
        /\ last.err = ConflictError(RegisterKey)
        /\ last.ret = None
        /\ prompts = last.before
        /\ get_prompt(prompts, RegisterKey) = Some(last.before[RegisterKey])

C1_Witness ==
    /\ Collided /\ duplicate_behavior = "error"
    /\ last.prompt # Some(last.before[RegisterKey])
    /\ last.err # None
    /\ Cardinality(DOMAIN prompts) = 2

(* C2: under the ignore policy a Register on a bound key raises nothing,
   returns the definition already bound (not the submitted one) and leaves
   every binding as it was, so Lookup still returns the first definition. *)
C2_IgnoreReturnsExisting ==
    (Collided /\ duplicate_behavior = "ignore") =>
        /\ last.err = None
        /\ last.ret = Some(last.before[RegisterKey])
        /\ prompts = last.before
        /\ get_prompt(prompts, RegisterKey) = Some(last.before[RegisterKey])

C2_Witness ==
    /\ Collided /\ duplicate_behavior = "ignore"
    /\ last.prompt # Some(last.before[RegisterKey])
    /\ last.ret = Some(last.before[RegisterKey])

(* C3: under the warn policy a Register on a bound key succeeds: it logs one
   warning for the key, binds the key to the new definition, returns the new
   definition, and Lookup returns the new definition afterwards. *)
C3_WarnReplaces ==
    (Collided /\ duplicate_behavior = "warn") =>
        /\ last.err = None
        /\ last.warned = <<Warning(RegisterKey)>>
        /\ last.ret = last.prompt
        /\ prompts = DictSet(last.before, RegisterKey, last.prompt[1])
        /\ get_prompt(prompts, RegisterKey) = last.prompt

C3_Witness ==
    /\ Collided /\ duplicate_behavior = "warn"
    /\ last.prompt # Some(last.before[RegisterKey])
    /\ last.warned # <<>>
    /\ get_prompt(prompts, RegisterKey) = last.prompt

(* C4: under the replace policy a Register on a bound key logs nothing and
   raises nothing, returns the new definition and binds the key to it: Lookup
   returns the second definition, the first (when it is another definition)
   is no longer what the key gives, and every other key is bound as before. *)
C4_ReplaceSilently ==
    (Collided /\ duplicate_behavior = "replace") =>
        /\ last.err = None
        /\ last.warned = <<>>
        /\ last.ret = last.prompt
        /\ get_prompt(prompts, RegisterKey) = last.prompt
        /\ (last.prompt # Some(last.before[RegisterKey]) =>
               get_prompt(prompts, RegisterKey) # Some(last.before[RegisterKey]))
        /\ DOMAIN prompts = DOMAIN last.before
        /\ SameExcept(prompts, last.before, RegisterKey)

C4_Witness ==
    /\ Collided /\ duplicate_behavior = "replace"
    /\ last.prompt # Some(last.before[RegisterKey])
    /\ get_prompt(prompts, RegisterKey) = last.prompt
    /\ Cardinality(DOMAIN prompts) = 2

(* C5: under each of the four policies a Register on a key with no binding
   succeeds, returns the submitted definition, binds the key to it (Lookup
   returns it, Contains is true) and changes no other key's binding. *)
C5_FreshKeyInserts ==
    (IsRegister /\ RegisterKey \notin DOMAIN last.before) =>
        /\ duplicate_behavior \in {"warn", "replace", "error", "ignore"}
        /\ last.err = None
        /\ last.ret = last.prompt
        /\ get_prompt(prompts, RegisterKey) = last.prompt
        /\ has_prompt(prompts, RegisterKey)
        /\ DOMAIN prompts = (DOMAIN last.before) \cup {RegisterKey}
        /\ SameExcept(prompts, last.before, RegisterKey)

C5_Witness ==
    /\ IsRegister /\ RegisterKey \notin DOMAIN last.before
    /\ duplicate_behavior = "error"
    /\ DOMAIN last.before # {}
    /\ has_prompt(prompts, RegisterKey)

----------------------------------------------------------------------------
(* Render(name, arguments, context) *)

NotFoundError(name) ==
    Some([type |-> "NotFoundError", text |-> "Unknown prompt", arg |-> name])

(* C6: Render of a name with no binding raises NotFoundError carrying that
   name, calls no definition's render procedure, does not suspend, and
   leaves every binding as it was. *)
C6_RenderUnknownName ==
    (last.op = "render_prompt_call" /\ last.key \notin DOMAIN last.before) =>
        /\ last.err = NotFoundError(last.key)
        /\ last.calls = <<>>
        /\ last.ncalls = 0
        /\ last.task = None
        /\ prompts = last.before

C6_Witness ==
    /\ last.op = "render_prompt_call"
    /\ last.key = "ghost"
    /\ DOMAIN last.before # {}
    /\ last.err = NotFoundError("ghost")

(* C7: Render of a bound name makes one call, to the render procedure of the
   definition bound to the name, with the arguments and the context it was
   given; when that procedure returns, Render has made no further call and
   returns the very message sequence the procedure returned. *)
C7_RenderDelegatesOnce ==
    /\ (last.op = "render_prompt_call" /\ last.key \in DOMAIN last.before) =>
          /\ last.err = None
          /\ last.calls = <<[prompt |-> last.before[last.key],
                             arguments |-> last.arguments,
                             context |-> last.context]>>
          /\ last.task # None
          /\ last.task[1].prompt = last.before[last.key]
    /\ (last.op = "render_prompt_resume" /\ last.produced[1].kind = "return") =>
          /\ last.ncalls = 1
          /\ last.calls = <<>>
          /\ last.err = None
          /\ last.messages = Some(last.produced[1].messages)

C7_Witness ==
    /\ last.op = "render_prompt_resume"
    /\ last.produced[1].kind = "return"
    /\ last.messages = Some(<<"m2", "m1">>)
    /\ last.ncalls = 1

(* C8: when the delegated render procedure raises, Render raises that same
   error: it is not replaced by NotFoundError or any other error, nothing is
   returned, and the procedure is not called again. *)
C8_RenderErrorPassesThrough ==
    (last.op = "render_prompt_resume" /\ last.produced[1].kind = "raise") =>
        /\ last.err = last.produced[1].error
        /\ last.err # None
        /\ last.messages = None
        /\ last.calls = <<>>
        /\ last.ncalls = 1

C8_Witness ==
    /\ last.op = "render_prompt_resume"
    /\ last.produced[1].kind = "raise"
    /\ last.err # None
    /\ last.err[1].type = "RuntimeError"

----------------------------------------------------------------------------
(* Construct(policy) *)

RecognizedPolicies == {"warn", "replace", "error", "ignore"}

(* C9: construction with one of the four policies succeeds and gives a
   registry with no binding and that policy; construction with any other
   supplied value raises the configuration error (the code's ValueError) and
   gives no registry. *)
C9_ConstructValidatesPolicy ==
    (last.op = "__init__" /\ last.policy_arg # None) =>
        IF last.policy_arg[1] \in RecognizedPolicies
        THEN /\ alive
             /\ last.err = None
             /\ prompts = EmptyDict
             /\ duplicate_behavior = last.policy_arg[1]
        ELSE /\ ~alive
             /\ last.err # None
             /\ last.err[1].type = "ValueError"
             /\ last.err[1].text = "Invalid duplicate_behavior"

C9_Witness ==
    /\ last.op = "__init__"
    /\ last.policy_arg = Some("bogus")
    /\ ~alive
    /\ last.err # None

(* C10: construction with the policy omitted succeeds, and the registry then
   behaves under warn: a later Register on a bound key binds the key to the
   new definition and returns the new definition. *)
C10_DefaultPolicyIsWarn ==
    /\ (last.op = "__init__" /\ last.policy_arg = None) =>
          (alive /\ last.err = None /\ prompts = EmptyDict)
    /\ (alive /\ constructed_with = None) =>
          /\ duplicate_behavior = "warn"
          /\ Collided =>
                /\ last.err = None
                /\ last.ret = last.prompt
                /\ last.warned = <<Warning(RegisterKey)>>
                /\ get_prompt(prompts, RegisterKey) = last.prompt

C10_Witness ==
    /\ alive /\ constructed_with = None
    /\ Collided
    /\ last.prompt # Some(last.before[RegisterKey])
    /\ get_prompt(prompts, RegisterKey) = last.prompt

----------------------------------------------------------------------------
(* The read operations, the policy and the history of the bindings *)

ViewWrites == {"view_setitem", "view_delitem"}

(* C11: a caller cannot change the registry's bindings through the value
   ListAll returned: after a caller has added, replaced or deleted a binding
   in that value, Lookup and Contains give for every key what they gave
   before. *)
C11_ViewCannotCorrupt ==
    (last.op \in ViewWrites) =>
        \A k \in LookupKeys :
            /\ get_prompt(prompts, k) = get_prompt(last.before, k)
            /\ has_prompt(prompts, k) = has_prompt(last.before, k)

\* the policy chosen at construction: the argument, or "warn" when omitted
ChosenPolicy == IF constructed_with = None THEN "warn" ELSE constructed_with[1]

(* C12: Lookup never raises: it returns the stored definition when the key
   is bound and None when it is not, and it leaves the bindings and the
   policy as they were. *)
C12_LookupIsPureRead ==
    (last.op = "get_prompt") =>
        /\ last.err = None
        /\ last.ret = IF last.key \in DOMAIN last.before
                      THEN Some(last.before[last.key]) ELSE None
        /\ prompts = last.before
        /\ duplicate_behavior = ChosenPolicy

C12_Witness ==
    /\ last.op = "get_prompt"
    /\ last.key = "ghost"
    /\ last.ret = None
    /\ Cardinality(DOMAIN prompts) = 2

IsAnyRegister == last.op \in {"add_prompt", "add_prompt_from_fn"}

(* C13: in every state the three reads agree on every key: Contains is true
   iff Lookup is not None iff the key is a key of ListAll's dict, which then
   holds the definition Lookup returns; a successful Register makes the keys
   of ListAll the keys before it and its own key, and no other operation
   changes them, so n distinct keys registered are n bindings. *)
C13_ReadsAgree ==
    alive =>
        LET all == Deref(get_prompts(prompts), prompts)
        IN  /\ \A k \in LookupKeys \cup {""} :
                  /\ has_prompt(prompts, k) <=> (get_prompt(prompts, k) # None)
                  /\ has_prompt(prompts, k) <=> (k \in DOMAIN all)
                  /\ (k \in DOMAIN all) => (Some(all[k]) = get_prompt(prompts, k))
            /\ (last.op = "has_prompt") =>
                  (last.found = Some(get_prompt(prompts, last.key) # None))
            /\ (last.op = "get_prompts") =>
                  (Deref(last.view[1], prompts) = prompts)
            /\ (IsAnyRegister /\ last.err = None) =>
                  /\ DOMAIN all = (DOMAIN last.before) \cup {RegisterKey}
                  /\ Cardinality(DOMAIN all) =
                        Cardinality((DOMAIN last.before) \cup {RegisterKey})
            /\ (~IsAnyRegister \/ last.err # None) =>
                  (DOMAIN all = DOMAIN last.before)

C13_Witness ==
    /\ last.op = "has_prompt"
    /\ last.key = "k"
    /\ last.found = Some(TRUE)
    /\ Cardinality(DOMAIN Deref(get_prompts(prompts), prompts)) = 2

(* C14: Register binds the definition under the override key whenever an
   override key is supplied, whatever string it is, and under the
   definition's name only when none is supplied. *)
C14_OverrideIsBindingKey ==
    IsRegister =>
        /\ (last.override # None) =>
              /\ last.key = last.override[1]
              /\ (last.err = None) => has_prompt(prompts, last.override[1])
        /\ (last.override = None) => (last.key = last.prompt[1].name)

(* C15: RegisterFromCallable returns the definition that is stored under the
   built definition's name after the call: the built one when the name was
   free or the policy is warn or replace, the one already there under
   ignore; under error with the name bound it raises the conflict error and
   stores nothing. *)
C15_FromCallableReturnsStored ==
    (last.op = "add_prompt_from_fn") =>
        LET built == last.prompt[1]
            key == built.name
            bound == key \in DOMAIN last.before
        IN  /\ (last.err = None) => (last.ret = get_prompt(prompts, key))
            /\ (~bound \/ duplicate_behavior \in {"warn", "replace"}) =>
                  /\ last.err = None
                  /\ last.ret = Some(built)
                  /\ prompts = DictSet(last.before, key, built)
            /\ (bound /\ duplicate_behavior = "ignore") =>
                  /\ last.err = None
                  /\ last.ret = Some(last.before[key])
                  /\ prompts = last.before
            /\ (bound /\ duplicate_behavior = "error") =>
                  /\ last.err = ConflictError(key)
                  /\ last.ret = None
                  /\ prompts = last.before

C15_Witness ==
    /\ last.op = "add_prompt_from_fn"
    /\ duplicate_behavior = "ignore"
    /\ last.prompt[1].name \in DOMAIN last.before
    /\ last.prompt # Some(last.before[last.prompt[1].name])
    /\ last.ret = Some(last.before[last.prompt[1].name])

(* C16: in every state of a constructed registry the policy is one of the
   four recognized values and is the one chosen at construction, whatever
   operations have run since and whether they succeeded or failed. *)
C16_PolicyIsFixed ==
    alive =>
        /\ duplicate_behavior \in RecognizedPolicies
        /\ duplicate_behavior = ChosenPolicy

C16_Witness ==
    /\ alive
    /\ constructed_with = Some("error")
    /\ duplicate_behavior = "error"
    /\ last.op = "add_prompt"
    /\ last.err # None

(* C17: no operation of the registry removes a binding: a key that is bound
   before a step is bound after it, so the set of bound keys only grows. *)
C17_BindingsOnlyGrow ==
    [][\A k \in DOMAIN prompts : has_prompt(prompts', k)]_vars

C17_Witness ==
    /\ Cardinality(DOMAIN prompts) = 2
    /\ last.op = "render_prompt_cancel"
    /\ duplicate_behavior = "ignore"

RenderSteps == {"render_prompt_call", "render_prompt_resume", "render_prompt_cancel"}

(* C18: no step of a Render (its start, its completion, its failure, its
   cancellation) changes a binding or the policy, and while a Render is
   suspended the other operations can run: a Register, a Lookup, the
   completion of a suspended Render and the start of another Render. *)
C18_RenderNeitherWritesNorBlocks ==
    /\ (last.op \in RenderSteps) =>
          /\ prompts = last.before
          /\ duplicate_behavior = ChosenPolicy
    /\ (tasks # EmptyBag) =>
          /\ ENABLED AddPrompt
          /\ ENABLED Lookup
          /\ ENABLED RenderResume
          /\ (BagCardinality(tasks) < MaxTasks) => ENABLED RenderStart

C18_Witness ==
    /\ last.op = "add_prompt"
    /\ last.err = None
    /\ RegisterKey = "a"
    /\ "a" \in DOMAIN last.before
    /\ last.prompt # Some(last.before["a"])
    /\ \E t \in BagToSet(tasks) : t.name = "a" /\ CopiesIn(t, tasks) = 2

C19_State ==
    /\ (last.op = "render_prompt_call" /\ last.key \in DOMAIN last.before) =>
          /\ last.task[1].prompt = last.before[last.key]
          /\ last.calls[1].prompt = last.before[last.key]
    /\ (last.op \in {"render_prompt_resume", "render_prompt_cancel"}) =>
          /\ last.calls = <<>>
          /\ last.ncalls = 1
    /\ (last.op = "render_prompt_resume" /\ last.produced[1].kind = "return") =>
          (last.messages = Some(last.produced[1].messages))

C19_Step ==
    \A t \in BagToSet(tasks') :
        \/ t \in BagToSet(tasks)
        \/ t.name \in DOMAIN prompts /\ t.prompt = prompts[t.name]

(* C19: a Render resolves its name once, when it starts: it calls the
   definition bound at that moment; a suspended Render keeps that definition
   whatever is registered meanwhile, calls nothing when it is resumed and
   returns what the call it made returns. *)
C19_RenderResolvesOnce == []C19_State /\ [][C19_Step]_vars

C19_Witness ==
    /\ last.op = "render_prompt_resume"
    /\ last.produced[1].kind = "return"
    /\ duplicate_behavior \in {"warn", "replace"}
    /\ get_prompt(prompts, last.key) # None
    /\ get_prompt(prompts, last.key) # Some(last.task[1].prompt)
    /\ last.messages = Some(<<"m1">>)

(* C20: under error and ignore every key bound before an operation is bound
   to the same definition after it (first writer wins); under warn and
   replace a Register binds its key to its definition and no other
   operation, and no Register on another key, changes what a key is bound to
   (last writer wins). *)
C20_PolicyDecidesBinding ==
    alive =>
        /\ (duplicate_behavior \in {"error", "ignore"}) =>
              \A k \in DOMAIN last.before :
                  get_prompt(prompts, k) = Some(last.before[k])
        /\ (duplicate_behavior \in {"warn", "replace"}) =>
              IF IsAnyRegister
              THEN /\ get_prompt(prompts, RegisterKey) = last.prompt
                   /\ SameExcept(prompts, last.before, RegisterKey)
              ELSE prompts = last.before

C20_Witness ==
    /\ last.op = "add_prompt_from_fn"
    /\ duplicate_behavior = "ignore"
    /\ Cardinality(DOMAIN prompts) = 2
    /\ "a" \in DOMAIN last.before
    /\ last.prompt # Some(last.before["a"])
    /\ get_prompt(prompts, "a") = Some(last.before["a"])

====
